---- MODULE Spec2Model ----
(***************************************************************************)
(* The incremental GSMArena scraper (runIncrementalScraper and the         *)
(* functions it calls) as a state machine.  One process run is a walk      *)
(* through the program positions of the async code; the files              *)
(* seen_products.json and scraped_products/<brand>.json survive a run and  *)
(* are read by the next one.                                               *)
(***************************************************************************)
EXTENDS Integers, Sequences, FiniteSets, TLC

(***************************************************************************)
(* Bounds of the model.                                                    *)
(***************************************************************************)
\* The credit ceiling.  The program sets 950; the model scales it down so
\* that the ceiling is reached inside the explored runs.
MAX_CREDITS == 5
\* The successive process runs that share the files: a first and a second.
Runs == {1, 2}
\* The product ids the source lists.
Ids == {1, 2}
\* Math.random() yields k / RandomSteps for k in 0 .. RandomSteps - 1.
RandomSteps == 4
\* The listing pages of a brand that the site of the full scraper fills.
MaxFullPages == 2
\* The most entries PRODUCT_URLS holds for the image scraper.
MaxProducts == 3
\* The longest brand file written when the files are taken on their own.
MaxFileLen == 3

(***************************************************************************)
(* Program constants.                                                      *)
(***************************************************************************)
\* milliseconds
MIN_DELAY == 3000
MAX_DELAY == 8000
MIN_LAUNCH_YEAR == 2023
\* consecutiveOldPages >= 3 stops the pagination
OLD_PAGES_LIMIT == 3
\* oldProductCount >= 3 leaves the item loop
OLD_PRODUCT_LIMIT == 3

(***************************************************************************)
(* Text: a string is a sequence of one-character strings.                  *)
(***************************************************************************)
UpperCase ==
    << "A","B","C","D","E","F","G","H","I","J","K","L","M",
       "N","O","P","Q","R","S","T","U","V","W","X","Y","Z" >>
LowerCase ==
    << "a","b","c","d","e","f","g","h","i","j","k","l","m",
       "n","o","p","q","r","s","t","u","v","w","x","y","z" >>

toLowerChar(c) ==
    IF \E i \in 1..26 : UpperCase[i] = c
    THEN LowerCase[CHOOSE i \in 1..26 : UpperCase[i] = c]
    ELSE c

\* String.prototype.toLowerCase
toLowerCase(s) == [i \in 1..Len(s) |-> toLowerChar(s[i])]

\* String.prototype.includes
includes(s, k) ==
    \E i \in 0..(Len(s) - Len(k)) : SubSeq(s, i + 1, i + Len(k)) = k

BLOCK_KEYWORDS ==
    << <<"c","a","p","t","c","h","a">>,
       <<"a","c","c","e","s","s"," ","d","e","n","i","e","d">>,
       <<"u","n","u","s","u","a","l"," ","t","r","a","f","f","i","c">>,
       <<"b","l","o","c","k","e","d">>,
       <<"f","o","r","b","i","d","d","e","n">>,
       <<"r","a","t","e"," ","l","i","m","i","t">>,
       <<"t","o","o"," ","m","a","n","y"," ","r","e","q","u","e","s","t","s">> >>

\* isBlocked without the lower-casing: a keyword is found only as written.
isBlockedCaseSensitive(html) ==
    \E k \in 1..Len(BLOCK_KEYWORDS) : includes(html, BLOCK_KEYWORDS[k])

\* Detect if page is blocked
isBlocked(html) ==
    LET lowerHtml == toLowerCase(html)
    IN  \E k \in 1..Len(BLOCK_KEYWORDS) : includes(lowerHtml, BLOCK_KEYWORDS[k])

(***************************************************************************)
(* Listing URLs.                                                           *)
(***************************************************************************)
BASE ==
    <<"h","t","t","p","s",":","/","/","w","w","w",".",
      "g","s","m","a","r","e","n","a",".","c","o","m">>

UrlApple ==
    BASE \o <<"/","a","p","p","l","e","-","p","h","o","n","e","s","-",
              "4","8",".","p","h","p">>
UrlSamsung ==
    BASE \o <<"/","s","a","m","s","u","n","g","-","p","h","o","n","e","s","-",
              "9",".","p","h","p">>
\* Listing URLs the pattern of getBrandProductLinks does not match: a type
\* that is none of the four, and a path without the numeric id.
UrlAppleLaptops ==
    BASE \o <<"/","a","p","p","l","e","-","l","a","p","t","o","p","s","-",
              "4","8",".","p","h","p">>
UrlSamsungNoId ==
    BASE \o <<"/","s","a","m","s","u","n","g","-","p","h","o","n","e","s",
              ".","p","h","p">>
\* A listing URL in capitals, which the pattern (flag i) matches.
UrlSamsungCapitals ==
    BASE \o <<"/","S","A","M","S","U","N","G","-","P","H","O","N","E","S","-",
              "9",".","P","H","P">>

\* The configured categories (the first two of the program's list).
BRAND_CATEGORIES ==
    << [name |-> "apple",   url |-> UrlApple,   category |-> "phones"],
       [name |-> "samsung", url |-> UrlSamsung, category |-> "phones"] >>

Brands == {BRAND_CATEGORIES[i].name : i \in 1..Len(BRAND_CATEGORIES)}

\* The list with the listing URL of one category edited.
WithUrl(c, url) == [BRAND_CATEGORIES EXCEPT ![c].url = url]
EditedCategories ==
    { WithUrl(1, UrlAppleLaptops), WithUrl(2, UrlSamsungNoId),
      WithUrl(2, UrlSamsungCapitals) }

Digits == {"0","1","2","3","4","5","6","7","8","9"}
SlugChars ==
    {LowerCase[i] : i \in 1..26} \cup {UpperCase[i] : i \in 1..26}
        \cup Digits \cup {"-"}
ListingTypes ==
    << <<"p","h","o","n","e","s">>, <<"t","a","b","l","e","t","s">>,
       <<"w","a","t","c","h">>, <<"e","a","r","b","u","d","s">> >>
DotPhp == <<".","p","h","p">>

\* s[from..to] read without case, as the pattern's flag i has it
lowerSub(s, from, to) ==
    IF to > Len(s) THEN << >> ELSE toLowerCase(SubSeq(s, from, to))

\* brandUrl.match(/\/([a-z0-9-]+)-(phones|tablets|watch|earbuds)-(\d+)\.php/i)
matchBrandUrl(url) ==
    \E a \in 1..Len(url) :
        /\ url[a] = "/"
        /\ \E b \in (a + 2)..Len(url) :
              /\ url[b] = "-"
              /\ \A i \in (a + 1)..(b - 1) : url[i] \in SlugChars
              /\ \E k \in 1..Len(ListingTypes) :
                    LET d == b + Len(ListingTypes[k]) + 1
                    IN  /\ lowerSub(url, b + 1, d - 1) = ListingTypes[k]
                        /\ d <= Len(url)
                        /\ url[d] = "-"
                        /\ \E e \in (d + 1)..Len(url) :
                              /\ \A i \in (d + 1)..e : url[i] \in Digits
                              /\ lowerSub(url, e + 1, e + Len(DotPhp)) = DotPhp

(***************************************************************************)
(* Response bodies the transport can hand back.                            *)
(***************************************************************************)
TextPhones    == <<"P","h","o","n","e","s">>
TextBlock     == <<"B","l","o","c","k"," ","p","a","r","t","y">>
TextCaptcha   == <<"C","a","p","t","c","h","a">>
TextDenied    == <<"A","C","C","E","S","S"," ","D","E","N","I","E","D">>
TextUnusual   == <<"U","n","u","s","u","a","l"," ","T","r","a","f","f","i","c">>
TextBlocked   == <<"I","P"," ","b","l","o","c","k","e","d">>
TextForbidden == <<"4","0","3"," ","F","o","r","b","i","d","d","e","n">>
TextRateLimit == <<"R","a","t","e"," ","L","i","m","i","t">>
TextTooMany   == <<"T","o","o"," ","M","a","n","y"," ","R","e","q","u","e","s","t","s">>
TextNone      == << >>

\* Texts carried by the pages of the source proper.
PageTexts == {TextPhones, TextBlock}
\* Texts of the anti-bot pages.
BlockPageTexts ==
    {TextCaptcha, TextDenied, TextUnusual, TextBlocked, TextForbidden,
     TextRateLimit, TextTooMany}

(***************************************************************************)
(* The source.  A product page carries its <h1> name and the year found    *)
(* in Launch/Announced (0: no 20xx year there).  A listing page is the     *)
(* sequence of the links parseBrandListing finds in it.                    *)
(***************************************************************************)
Names == {"", "Phone"}
AnnouncedYears == {0, MIN_LAUNCH_YEAR - 1, MIN_LAUNCH_YEAR}
ProductPages == [h1 : Names, announced : AnnouncedYears]

Link(i) == [id |-> i]
ListingPages ==
    {<< >>} \cup {<<Link(i)>> : i \in Ids}
            \cup {<<Link(p[1]), Link(p[2])>> : p \in Ids \X Ids}

\* Sources that answer the same way every time they are asked.
StableListings ==
    { << <<Link(1), Link(2)>> >>,
      << <<Link(1)>>, <<Link(2)>> >> }
StableProducts ==
    [Ids -> {[h1 |-> "Phone", announced |-> MIN_LAUNCH_YEAR],
             [h1 |-> "Phone", announced |-> MIN_LAUNCH_YEAR - 1]}]
StableSources ==
    [stable : {TRUE},
     faults : {TRUE},
     listing : [1..Len(BRAND_CATEGORIES) -> StableListings],
     products : StableProducts]
\* A source whose every answer is arbitrary.
VolatileSource ==
    [stable |-> FALSE, faults |-> TRUE, listing |-> << >>, products |-> << >>]

\* Which of the two kinds of file the process can write.
HealthyDisk == [ledger |-> TRUE, sink |-> TRUE]
Disks == { HealthyDisk,
           [ledger |-> FALSE, sink |-> TRUE],
           [ledger |-> TRUE,  sink |-> FALSE] }

\* The surroundings of the runs: an arbitrary source over a healthy disk, or
\* a stable source over any disk.
Environments ==
    ({VolatileSource} \X {HealthyDisk}) \cup (StableSources \X Disks)
\* The surroundings of the runs over an edited category list: a stable source
\* over a healthy disk.
EditedEnvironments == StableSources \X {HealthyDisk}

VARIABLES
    brandCategories,     \* the list the for loop of runIncrementalScraper walks
    source,              \* what the site serves
    disk,                \* which files can be written
    run,                 \* number of the process run
    pc,                  \* position of the run
    exitCode,            \* process exit status (-1 while running, 137 killed)
    persisted,           \* seen_products.json: the mapping last written to it
    stateFile,           \* the condition of seen_products.json (see below)
    sink,                \* scraped_products/<brand>.json
    seenProducts,        \* the mapping loaded by loadSeenProducts
    creditsUsed,
    catIdx,              \* index of brandCategory in BRAND_CATEGORIES
    page,
    allNewLinks,         \* also newLinks of the item loop
    consecutiveOldPages,
    linkIdx,             \* index of link in newLinks
    oldProductCount,
    allScrapedProducts,
    hist,                \* observations about the run
    fullScrape,          \* the run of the full scraper (GSMArena.js)
    amazonRun            \* the run of the image scraper (amznscrapper.js)

vars ==
    << brandCategories, source, disk, run, pc, exitCode, persisted, sink, seenProducts, creditsUsed,
       catIdx, page, allNewLinks, consecutiveOldPages, linkIdx,
       oldProductCount, allScrapedProducts, hist, stateFile, fullScrape,
       amazonRun >>

Keys(m) == DOMAIN m
EmptyMap == << >>

NoCounts == [i \in Ids |-> 0]

\* The observations at the start of a process.
FreshHist(startKeys, handedPrev, prevEnd) ==
    [ transportCalls   |-> 0,
      startKeys        |-> startKeys,     \* keys loaded at start
      acceptCount      |-> NoCounts,      \* times an id was accepted
      appendCalls      |-> NoCounts,      \* appendScrapedProduct calls per id
      itemFetched      |-> {},            \* ids whose item page was requested
      pagedBeyondFirst |-> FALSE,         \* a listing page > 1 was requested
      endKind          |-> "running",     \* how the run ended
      blockSeen        |-> FALSE,         \* a Block was detected
      blockTextServed  |-> FALSE,         \* an anti-bot page was served
      catFlushed       |-> TRUE,          \* the category left last was flushed
      handedPrev       |-> handedPrev,    \* ids handed to the sink by earlier runs
      prevEnd          |-> prevEnd,       \* how the run before ended
      last             |-> "none",        \* what the step just taken met
      delayed          |-> FALSE,         \* a randomDelay within [MIN_DELAY,
                                          \* MAX_DELAY] has run since the last
                                          \* transport call
      invalidUrlSeen   |-> FALSE,         \* a listing URL failed the pattern
      lastNewPage      |-> 0,             \* last page of the category in
                                          \* progress with an unseen reference
      acceptedYears    |-> {},            \* years announced on the pages of
                                          \* the accepted items
      inFlight         |-> 0 ]            \* requests sent and not yet answered

\* The observations once the step they describe is past.
Quiet(h) == [h EXCEPT !.last = "none"]
\* The observations that end with the pagination or with the process.
AtRest(h) == [h EXCEPT !.lastNewPage = 0]

(***************************************************************************)
(* State management                                                        *)
(***************************************************************************)
\* a load that finds nothing
loadSeenProductsEmpty(state, file) == EmptyMap

\* a load that takes whatever mapping the file was given last
loadSeenProductsUnchecked(state, file) == file

\* Load previously seen product IDs.  The file is "sound" (absent, which
\* reads as {}, or the complete JSON text of `file`), "torn" (its bytes are
\* not a JSON document: JSON.parse throws) or "unreadable" (readFileSync
\* throws); the catch turns both throws into {}.
loadSeenProducts(state, file) == IF state = "sound" THEN file ELSE EmptyMap

\* saveSeenProducts that never reaches the file
saveSeenProductsLost(file, seen, writeOk) == file

\* Save seen product IDs; a failed write is logged and swallowed
saveSeenProducts(file, seen, writeOk) == IF writeOk THEN seen ELSE file

\* fs.writeFileSync(STATE_FILE, ...) that ran to its end: the file holds the
\* whole text, and a file that could not be read still cannot
writeFileSync(state, writeOk) ==
    IF writeOk /\ state # "unreadable" THEN "sound" ELSE state

\* a file kept in the order of arrival
sortByLaunchYearNot(s) == s

RECURSIVE sortByLaunchYear(_)
\* Array.prototype.sort((a, b) => b.launchYear - a.launchYear), stable
sortByLaunchYear(s) ==
    IF s = << >> THEN << >>
    ELSE LET x    == s[Len(s)]
             rest == sortByLaunchYear(SubSeq(s, 1, Len(s) - 1))
             k    == Cardinality({i \in 1..Len(rest) :
                                    rest[i].launchYear >= x.launchYear})
         IN  SubSeq(rest, 1, k) \o <<x>> \o SubSeq(rest, k + 1, Len(rest))

\* Save scraped products to brand-specific JSON files; errors are swallowed
appendScrapedProduct(files, product, writeOk) ==
    IF writeOk
    THEN [files EXCEPT ![product.brand] = sortByLaunchYear(Append(@, product))]
    ELSE files

(***************************************************************************)
(* Utility functions                                                       *)
(***************************************************************************)
\* a delay without the MIN_DELAY offset
randomDelayUnshifted(k) ==
    (k * (MAX_DELAY - MIN_DELAY + 1)) \div RandomSteps

\* Math.floor(Math.random() * (MAX_DELAY - MIN_DELAY + 1)) + MIN_DELAY
\* for Math.random() = k / RandomSteps
randomDelay(k) ==
    ((k * (MAX_DELAY - MIN_DELAY + 1)) \div RandomSteps) + MIN_DELAY

\* the delay lies in the configured interval
withinDelayRange(d) == MIN_DELAY <= d /\ d <= MAX_DELAY

\* await randomDelay(): what the observations keep of it
AfterDelay(h, k) ==
    [Quiet(h) EXCEPT !.delayed = @ \/ withinDelayRange(randomDelay(k))]

(***************************************************************************)
(* ScraperAPI layer                                                        *)
(***************************************************************************)
MsgBlock == "BLOCK_DETECTED: Page contains blocking indicators"
MsgRequestFailed == "ScraperAPI request failed"
MsgNoName == "Could not extract product name"
MsgNoYear == "Could not extract launch year from Launch.Announced"

\* a charge that does not count
chargeCreditNot(credits) == credits

\* creditsUsed++
chargeCredit(credits) == credits + 1

\* a ceiling that is never found reached
creditLimitReachedNever(credits) == FALSE

\* Safety check: prevent credit over-burn
creditLimitReached(credits) == credits >= MAX_CREDITS

\* What the transport can answer to a request: the page the source serves,
\* and, unless the source is free of faults, a failure or an anti-bot page.
ListingOptions(c, p) ==
    IF source.stable
    THEN {IF p <= Len(source.listing[c]) THEN source.listing[c][p] ELSE << >>}
    ELSE ListingPages

ListingResponses(c, p) ==
    (IF source.faults
     THEN {[kind |-> "error", text |-> TextNone, links |-> << >>]}
          \cup {[kind |-> "data", text |-> t, links |-> << >>] :
                  t \in BlockPageTexts}
     ELSE {})
    \cup {[kind |-> "data", text |-> t, links |-> l] :
            t \in (IF source.faults THEN PageTexts ELSE {TextPhones}),
            l \in ListingOptions(c, p)}

ProductOptions(id) ==
    IF source.stable THEN {source.products[id]} ELSE ProductPages

ProductResponses(id) ==
    (IF source.faults
     THEN {[kind |-> "error", text |-> TextNone, product |-> << >>]}
          \cup {[kind |-> "data", text |-> t, product |-> << >>] :
                  t \in BlockPageTexts}
     ELSE {})
    \cup {[kind |-> "data", text |-> t, product |-> q] :
            t \in (IF source.faults THEN PageTexts ELSE {TextPhones}),
            q \in ProductOptions(id)}

\* fetchWithScraperAPI from the transport's answer on: what the await yields
fetchOutcome(resp) ==
    IF resp.kind = "error"
    THEN [threw |-> TRUE, message |-> MsgRequestFailed]
    ELSE IF isBlocked(resp.text)
         THEN [threw |-> TRUE, message |-> MsgBlock]
         ELSE [threw |-> FALSE, message |-> ""]

\* a handler that takes a Block for an ordinary error
isBlockErrorNever(message) == FALSE

\* a handler that takes every error for a Block
isBlockErrorAlways(message) == TRUE

\* error.message.includes("BLOCK_DETECTED")
isBlockError(message) == message = MsgBlock

(***************************************************************************)
(* Parsing layer                                                           *)
(***************************************************************************)
\* the links of a listing page, each with its product id
parseBrandListing(resp) == resp.links

\* an extraction that falls back on the cutoff year when the page has none
extractLaunchYearWithFallback(html) ==
    IF html.announced = 0 THEN MIN_LAUNCH_YEAR ELSE html.announced

\* Extract launch year from specs (0 stands for null)
extractLaunchYear(html) == html.announced

\* Parse product page to extract structured data
parseProductPage(html, id, brand, now) ==
    IF html.h1 = ""
    THEN [threw |-> TRUE, message |-> MsgNoName]
    ELSE IF extractLaunchYear(html) = 0
         THEN [threw |-> TRUE, message |-> MsgNoYear]
         ELSE [threw |-> FALSE, message |-> "",
               product |-> [id |-> id, name |-> html.h1, brand |-> brand,
                            launchYear |-> extractLaunchYear(html),
                            scrapedAt |-> now]]

\* What a listing request met.
observePage(out, links, newLinks) ==
    IF out.threw
    THEN IF out.message = MsgBlock THEN "page:block" ELSE "page:fetchError"
    ELSE IF links = << >> THEN "page:empty"
         ELSE IF newLinks = << >> THEN "page:noUnseen" ELSE "page:unseen"

\* What an item request met.
observeItem(out, html) ==
    IF out.threw
    THEN IF out.message = MsgBlock THEN "item:block" ELSE "item:fetchError"
    ELSE IF html.h1 = "" \/ html.announced = 0 THEN "item:extractionFailure"
         ELSE IF html.announced < MIN_LAUNCH_YEAR THEN "item:outOfScope"
              ELSE "item:inScope"

(***************************************************************************)
(* Incremental scraping logic                                              *)
(***************************************************************************)
\* a pagination that no run of old pages stops
tooManyOldPagesNever(n) == FALSE

\* consecutiveOldPages >= 3
tooManyOldPages(n) == n >= OLD_PAGES_LIMIT

\* a filter that lets every launch year through
isOldProductNever(product) == FALSE

\* product.launchYear < MIN_LAUNCH_YEAR
isOldProduct(product) == product.launchYear < MIN_LAUNCH_YEAR

\* a filter that keeps every link
filterNewLinksAll(links, seen) == links

\* links.filter(link => !seenProducts[link.id])
filterNewLinks(links, seen) ==
    SelectSeq(links, LAMBDA l : ~(l.id \in Keys(seen)))

\* a double-check that never finds the product
alreadySeenNever(seen, productId) == FALSE

\* Double-check we haven't seen this product
alreadySeen(seen, productId) == productId \in Keys(seen)

\* a marking that starts the mapping over
markSeenOnly(seen, product) ==
    [k \in {product.id} |->
        [id |-> product.id, name |-> product.name,
         scrapedAt |-> product.scrapedAt]]

\* Mark as seen
markSeen(seen, product) ==
    [k \in Keys(seen) \cup {product.id} |->
        IF k = product.id
        THEN [id |-> product.id, name |-> product.name,
              scrapedAt |-> product.scrapedAt]
        ELSE seen[k]]

\* The numbers of the closing report of a run that went through every
\* category
finalSummary(scraped, credits, seen) ==
    [newProducts   |-> Len(scraped),
     creditsUsed   |-> credits,
     totalProducts |-> Cardinality(Keys(seen))]

(***************************************************************************)
(* The run.  Positions: "page" (top of the pagination loop), "pageWait"    *)
(* (listing request in flight), "pageDelay" (randomDelay after page++),    *)
(* "item" (top of the item loop), "itemWait" (item request in flight),     *)
(* "itemDelay" (randomDelay after an item), "exited".                      *)
(***************************************************************************)
\* A scraper that is not running.
NotStarted == [pc |-> "off"]

Start ==
    /\ run = 1
    /\ pc = "page"
    /\ exitCode = -1
    /\ persisted = EmptyMap
    /\ sink = [b \in Brands |-> << >>]
    /\ seenProducts = loadSeenProducts(stateFile, persisted)
    /\ creditsUsed = 0
    /\ catIdx = 1
    /\ page = 1
    /\ allNewLinks = << >>
    /\ consecutiveOldPages = 0
    /\ linkIdx = 1
    /\ oldProductCount = 0
    /\ allScrapedProducts = << >>
    /\ hist = FreshHist({}, {}, "none")

\* The program as it is configured.
Init ==
    /\ brandCategories = BRAND_CATEGORIES
    /\ stateFile = "sound"
    /\ fullScrape = NotStarted
    /\ amazonRun = NotStarted
    /\ \E e \in Environments : source = e[1] /\ disk = e[2]
    /\ Start

\* The program with the listing URL of one category edited.
InitEdited ==
    /\ brandCategories \in EditedCategories
    /\ stateFile = "sound"
    /\ fullScrape = NotStarted
    /\ amazonRun = NotStarted
    /\ \E e \in EditedEnvironments : source = e[1] /\ disk = e[2]
    /\ Start

\* The locals of getBrandProductLinks and of the item loop are out of scope.
LocalsGone ==
    /\ page' = 1
    /\ allNewLinks' = << >>
    /\ consecutiveOldPages' = 0
    /\ linkIdx' = 1
    /\ oldProductCount' = 0

\* The for loop over BRAND_CATEGORIES reaches index c: the next category's
\* pagination starts, or the loop is over and the process ends with status 0.
GoCategory(c, file, h, flushed) ==
    /\ persisted' = file
    /\ stateFile' = IF flushed THEN writeFileSync(stateFile, disk.ledger)
                              ELSE stateFile
    /\ catIdx' = c
    /\ LocalsGone
    /\ IF c > Len(brandCategories)
       THEN /\ pc' = "exited"
            /\ exitCode' = 0
            /\ hist' = [AtRest(h) EXCEPT !.endKind = "clean",
                                         !.catFlushed = flushed,
                                         !.delayed = FALSE]
       ELSE /\ pc' = "page"
            /\ exitCode' = exitCode
            /\ hist' = [AtRest(h) EXCEPT !.catFlushed = flushed]

\* an item loop that is followed by the pagination of its own category
EndItemLoopSameCategory(writeOk, h) ==
    GoCategory(catIdx,
               saveSeenProducts(persisted, seenProducts, writeOk),
               h,
               TRUE)

\* The item loop is left: "Save state after each brand/category".
EndItemLoop(writeOk, h) ==
    GoCategory(catIdx + 1,
               saveSeenProducts(persisted, seenProducts, writeOk),
               h,
               TRUE)

\* A Block passes the handlers up to the outer catch of runIncrementalScraper:
\* "Save whatever we have", process.exit(1).
Fatal(writeOk, h) ==
    /\ persisted' = saveSeenProducts(persisted, seenProducts, writeOk)
    /\ stateFile' = writeFileSync(stateFile, writeOk)
    /\ pc' = "exited"
    /\ exitCode' = 1
    /\ hist' = [AtRest(h) EXCEPT !.endKind = "block", !.delayed = FALSE]
    /\ UNCHANGED catIdx
    /\ LocalsGone

\* fetchWithScraperAPI up to the transport request: the credit is charged, and
\* at the ceiling the process exits on the spot.
FetchIssue(waitPc, h) ==
    /\ creditsUsed' = chargeCredit(creditsUsed)
    /\ IF creditLimitReached(creditsUsed')
       THEN /\ pc' = "exited"
            /\ exitCode' = 0
            /\ hist' = [AtRest(Quiet(hist)) EXCEPT !.endKind = "budget",
                                                   !.delayed = FALSE]
            /\ LocalsGone
       ELSE /\ pc' = waitPc
            /\ exitCode' = exitCode
            /\ hist' = [Quiet(h) EXCEPT !.transportCalls = @ + 1,
                                        !.inFlight = @ + 1,
                                        !.delayed = FALSE]
            /\ UNCHANGED << page, allNewLinks, consecutiveOldPages, linkIdx,
                            oldProductCount >>
    /\ UNCHANGED << amazonRun, fullScrape, brandCategories, source, disk, run, persisted, stateFile, sink, seenProducts, catIdx,
                    allScrapedProducts >>

\* getBrandProductLinks: the request for listing page `page`
\* getBrandProductLinks: on entry the URL is matched, and a URL that fails
\* the pattern throws to the category handler of runIncrementalScraper, which
\* logs it and lets the for loop go on; else the request for listing page
\* `page` is made
ListingFetchIssue ==
    /\ pc = "page"
    /\ IF page = 1 /\ ~matchBrandUrl(brandCategories[catIdx].url)
       THEN /\ GoCategory(catIdx + 1, persisted,
                          [hist EXCEPT !.last = "config:invalidUrl",
                                       !.invalidUrlSeen = TRUE],
                          FALSE)
            /\ UNCHANGED << amazonRun, fullScrape, brandCategories, source, disk, run, sink,
                            seenProducts, creditsUsed, allScrapedProducts >>
       ELSE FetchIssue("pageWait",
                       [hist EXCEPT !.pagedBeyondFirst = @ \/ page > 1])

\* getBrandProductLinks returns allNewLinks: the category is skipped when
\* there is none, else the item loop starts.
EndPagination(acc, h) ==
    IF acc = << >>
    THEN GoCategory(catIdx + 1, persisted, h, FALSE)
    ELSE /\ pc' = "item"
         /\ allNewLinks' = acc
         /\ linkIdx' = 1
         /\ oldProductCount' = 0
         /\ consecutiveOldPages' = 0
         /\ hist' = AtRest(h)
         /\ UNCHANGED << exitCode, catIdx, page, persisted, stateFile >>

\* page++; await randomDelay()
ContinuePagination(acc, oldPages, h) ==
    /\ pc' = "pageDelay"
    /\ allNewLinks' = acc
    /\ consecutiveOldPages' = oldPages
    /\ page' = page + 1
    /\ hist' = h
    /\ UNCHANGED << exitCode, catIdx, linkIdx, oldProductCount, persisted, stateFile >>

\* getBrandProductLinks: the listing request returns
ListingReturn ==
    /\ pc = "pageWait"
    /\ \E resp \in ListingResponses(catIdx, page) :
         LET out == fetchOutcome(resp)
             writeOk == disk.ledger
             links    == parseBrandListing(resp)
             newLinks == filterNewLinks(links, seenProducts)
             acc      == allNewLinks \o newLinks
             h0  == [hist EXCEPT
                        !.blockTextServed = @ \/ resp.text \in BlockPageTexts,
                        !.blockSeen = @ \/ (out.threw /\ out.message = MsgBlock),
                        !.inFlight = @ - 1,
                        !.last = observePage(out, links, newLinks)]
             hNew == [h0 EXCEPT !.lastNewPage = page]
         IN  /\ IF out.threw
                THEN IF isBlockError(out.message)
                     THEN Fatal(writeOk, h0)
                     ELSE EndPagination(allNewLinks, h0)
                ELSE IF links = << >>
                     THEN EndPagination(allNewLinks, h0)
                     ELSE IF newLinks = << >>
                          THEN IF tooManyOldPages(consecutiveOldPages + 1)
                               THEN EndPagination(acc, h0)
                               ELSE ContinuePagination(acc, consecutiveOldPages + 1, h0)
                          ELSE ContinuePagination(acc, 0, hNew)
    /\ UNCHANGED << amazonRun, fullScrape, brandCategories, source, disk, run, sink, seenProducts, creditsUsed,
                    allScrapedProducts >>

\* the randomDelay of the pagination loop is over
PageDelayDone ==
    /\ pc = "pageDelay"
    /\ pc' = "page"
    /\ \E k \in 0..(RandomSteps - 1) : hist' = AfterDelay(hist, k)
    /\ UNCHANGED << amazonRun, fullScrape, brandCategories, source, disk, run, exitCode, persisted, stateFile, sink, seenProducts,
                    creditsUsed, catIdx, page, allNewLinks, consecutiveOldPages,
                    linkIdx, oldProductCount, allScrapedProducts >>

\* scrapeProduct returned null: oldProductCount++, break at the limit,
\* else await randomDelay()
NullResult(writeOk, h) ==
    IF oldProductCount + 1 >= OLD_PRODUCT_LIMIT
    THEN EndItemLoop(writeOk, h)
    ELSE /\ pc' = "itemDelay"
         /\ oldProductCount' = oldProductCount + 1
         /\ hist' = h
         /\ UNCHANGED << exitCode, catIdx, page, allNewLinks,
                         consecutiveOldPages, linkIdx, persisted, stateFile >>

\* scrapeProduct for newLinks[linkIdx], up to its request
ItemStart ==
    /\ pc = "item"
    /\ LET link == allNewLinks[linkIdx]
       IN  IF alreadySeen(seenProducts, link.id)
           THEN /\ NullResult(disk.ledger, [hist EXCEPT !.last = "skip:seen"])
                /\ UNCHANGED << amazonRun, fullScrape, brandCategories, source, disk, run, sink, seenProducts, creditsUsed,
                                allScrapedProducts >>
           ELSE FetchIssue("itemWait",
                           [hist EXCEPT !.itemFetched = @ \cup {link.id}])

\* scrapeProduct: the item request returns
ItemReturn ==
    /\ pc = "itemWait"
    /\ \E resp \in ProductResponses(allNewLinks[linkIdx].id) :
         LET id     == allNewLinks[linkIdx].id
             sinkOk == disk.sink
             writeOk == disk.ledger
             out    == fetchOutcome(resp)
             h0     == [hist EXCEPT
                           !.blockTextServed = @ \/ resp.text \in BlockPageTexts,
                           !.blockSeen = @ \/ (out.threw /\ out.message = MsgBlock),
                           !.inFlight = @ - 1,
                           !.last = observeItem(out, resp.product)]
             parsed == parseProductPage(resp.product, id,
                                        brandCategories[catIdx].name, run)
         IN  /\ IF out.threw /\ isBlockError(out.message)
                THEN /\ Fatal(writeOk, h0)
                     /\ UNCHANGED << sink, seenProducts, allScrapedProducts >>
                ELSE IF \/ out.threw
                        \/ parsed.threw
                        \/ isOldProduct(parsed.product)
                     THEN /\ NullResult(writeOk, h0)
                          /\ UNCHANGED << sink, seenProducts, allScrapedProducts >>
                     ELSE /\ seenProducts' = markSeen(seenProducts, parsed.product)
                          /\ allScrapedProducts' = Append(allScrapedProducts, id)
                          /\ sink' = appendScrapedProduct(sink, parsed.product, sinkOk)
                          /\ oldProductCount' = 0
                          /\ pc' = "itemDelay"
                          /\ hist' = [h0 EXCEPT
                                        !.acceptCount[id] = @ + 1,
                                        !.appendCalls[id] = @ + 1,
                                        !.acceptedYears =
                                            @ \cup {resp.product.announced}]
                          /\ UNCHANGED << exitCode, catIdx, page, allNewLinks,
                                          consecutiveOldPages, linkIdx, persisted, stateFile >>
    /\ UNCHANGED << amazonRun, fullScrape, brandCategories, source, disk, run, creditsUsed >>

\* the randomDelay of the item loop is over: next link, or the loop ends
ItemDelayDone ==
    /\ pc = "itemDelay"
    /\ \E k \in 0..(RandomSteps - 1) :
         IF linkIdx >= Len(allNewLinks)
         THEN EndItemLoop(disk.ledger, AfterDelay(hist, k))
         ELSE /\ pc' = "item"
              /\ linkIdx' = linkIdx + 1
              /\ hist' = AfterDelay(hist, k)
              /\ UNCHANGED << exitCode, catIdx, page, allNewLinks,
                              consecutiveOldPages, oldProductCount, persisted, stateFile >>
    /\ UNCHANGED << amazonRun, fullScrape, brandCategories, source, disk, run, sink, seenProducts, creditsUsed,
                    allScrapedProducts >>

\* The process is killed at an await: its memory is gone, the files stay.
Crash ==
    /\ pc # "exited"
    /\ pc' = "exited"
    /\ exitCode' = 137
    /\ hist' = [FreshHist(hist.startKeys, hist.handedPrev, hist.prevEnd)
                   EXCEPT !.endKind = "crash",
                          !.appendCalls = hist.appendCalls]
    /\ seenProducts' = EmptyMap
    /\ creditsUsed' = 0
    /\ catIdx' = 1
    /\ allScrapedProducts' = << >>
    /\ LocalsGone
    /\ UNCHANGED << amazonRun, fullScrape, brandCategories, source, disk, run, persisted, stateFile, sink >>

\* The next process starts: module state is fresh, the ledger file is loaded.
Restart ==
    /\ pc = "exited"
    /\ run + 1 \in Runs
    /\ run' = run + 1
    /\ pc' = "page"
    /\ exitCode' = -1
    /\ seenProducts' = loadSeenProducts(stateFile, persisted)
    /\ creditsUsed' = 0
    /\ catIdx' = 1
    /\ LocalsGone
    /\ allScrapedProducts' = << >>
    /\ hist' = FreshHist(Keys(loadSeenProducts(stateFile, persisted)),
                         hist.handedPrev
                             \cup {i \in Ids : hist.appendCalls[i] > 0},
                         hist.endKind)
    /\ UNCHANGED << amazonRun, fullScrape, brandCategories, source, disk, persisted, stateFile, sink >>

Next ==
    \/ ListingFetchIssue
    \/ ListingReturn
    \/ PageDelayDone
    \/ ItemStart
    \/ ItemReturn
    \/ ItemDelayDone
    \/ Crash
    \/ Restart

Spec == Init /\ [][Next]_vars

SpecEdited == InitEdited /\ [][Next]_vars

(***************************************************************************)
(* Runs over a ledger file that may be damaged                             *)
(***************************************************************************)
\* The first run finds seen_products.json absent, or present and impossible
\* to read; the source is stable and the disk healthy.
InitDamaged ==
    /\ brandCategories = BRAND_CATEGORIES
    /\ stateFile \in {"sound", "unreadable"}
    /\ fullScrape = NotStarted
    /\ amazonRun = NotStarted
    /\ \E e \in EditedEnvironments : source = e[1] /\ disk = e[2]
    /\ Start

\* The process is killed inside the fs.writeFileSync of the saveSeenProducts
\* that ends a category: the file was opened for writing, which empties it,
\* and at most a prefix of the new text has reached it.
KillDuringSave ==
    /\ pc = "itemDelay"
    /\ linkIdx >= Len(allNewLinks)
    /\ disk.ledger
    /\ stateFile # "unreadable"
    /\ persisted' = seenProducts
    /\ stateFile' = "torn"
    /\ pc' = "exited"
    /\ exitCode' = 137
    /\ hist' = [FreshHist(hist.startKeys, hist.handedPrev, hist.prevEnd)
                   EXCEPT !.endKind = "crash",
                          !.appendCalls = hist.appendCalls]
    /\ seenProducts' = EmptyMap
    /\ creditsUsed' = 0
    /\ catIdx' = 1
    /\ allScrapedProducts' = << >>
    /\ LocalsGone
    /\ UNCHANGED << amazonRun, fullScrape, brandCategories, source, disk, run, sink >>

NextDamaged ==
    \/ Next
    \/ KillDuringSave

SpecDamaged == InitDamaged /\ [][NextDamaged]_vars

(***************************************************************************)
(* Runs over one category served without faults                            *)
(***************************************************************************)
\* The only listing page with references
ScenarioPage == <<Link(1), Link(2)>>

\* One category whose page 1 lists two references and whose page 2 is empty;
\* every request is answered with the page asked for, and an item page may
\* lack its name or its year, or announce a year out of scope.
ScenarioSources ==
    [stable : {TRUE},
     faults : {FALSE},
     listing : {<< <<ScenarioPage>> >>},
     products : [Ids -> ProductPages]]

InitScenario ==
    /\ brandCategories = <<BRAND_CATEGORIES[1]>>
    /\ stateFile = "sound"
    /\ fullScrape = NotStarted
    /\ amazonRun = NotStarted
    /\ source \in ScenarioSources
    /\ disk = HealthyDisk
    /\ Start

SpecScenario == InitScenario /\ [][Next]_vars

(***************************************************************************)
(* The files on their own: scraped_products/<brand>.json as                *)
(* appendScrapedProduct writes them, and seen_products.json as the rebuild *)
(* script derives it from them.                                            *)
(***************************************************************************)
\* A record without an id
NoId == 0

\* The order in which the rebuild script reads the brand files
BrandFiles == [i \in 1..Len(BRAND_CATEGORIES) |-> BRAND_CATEGORIES[i].name]

\* The launch years of the products handed to appendScrapedProduct
LaunchYears == {MIN_LAUNCH_YEAR, MIN_LAUNCH_YEAR + 1}

\* The products scrapeProduct can return
FileProducts ==
    [id : Ids, name : {"Phone"}, brand : Brands, launchYear : LaunchYears,
     scrapedAt : {1}]

\* The brand files before the first product: none, or one that holds a record
\* without an id.
FirstFiles ==
    { [b \in Brands |-> << >>],
      [b \in Brands |->
          IF b = BrandFiles[1]
          THEN << [id |-> NoId, name |-> "Phone", brand |-> b,
                   launchYear |-> MIN_LAUNCH_YEAR, scrapedAt |-> 1] >>
          ELSE << >>] }

RECURSIVE readAll(_, _)
\* the records of the brand files from the i-th on, in reading order
readAll(files, i) ==
    IF i > Len(BrandFiles) THEN << >>
    ELSE files[BrandFiles[i]] \o readAll(files, i + 1)

\* the script's loop over one file only
rebuildSeenProductsFirstFile(files) ==
    LET records == files[BrandFiles[1]]
        ids     == {records[k].id : k \in 1..Len(records)} \ {NoId}
    IN  [id \in ids |->
            LET last == CHOOSE k \in 1..Len(records) :
                            /\ records[k].id = id
                            /\ \A j \in (k + 1)..Len(records) : records[j].id # id
            IN  [id |-> records[last].id, name |-> records[last].name,
                 brand |-> records[last].brand,
                 launchYear |-> records[last].launchYear,
                 scrapedAt |-> records[last].scrapedAt]]

\* The rebuild script: every record with an id, of every brand file, becomes
\* the entry of its id; a later record replaces an earlier one of the same id
rebuildSeenProducts(files) ==
    LET records == readAll(files, 1)
        ids     == {records[k].id : k \in 1..Len(records)} \ {NoId}
    IN  [id \in ids |->
            LET last == CHOOSE k \in 1..Len(records) :
                            /\ records[k].id = id
                            /\ \A j \in (k + 1)..Len(records) : records[j].id # id
            IN  [id |-> records[last].id, name |-> records[last].name,
                 brand |-> records[last].brand,
                 launchYear |-> records[last].launchYear,
                 scrapedAt |-> records[last].scrapedAt]]

\* No process runs; the brand files are as found.
InitFiles ==
    /\ brandCategories = BRAND_CATEGORIES
    /\ stateFile = "sound"
    /\ fullScrape = NotStarted
    /\ amazonRun = NotStarted
    /\ source = VolatileSource
    /\ disk = HealthyDisk
    /\ run = 1
    /\ pc = "exited"
    /\ exitCode = 0
    /\ persisted = EmptyMap
    /\ sink \in FirstFiles
    /\ seenProducts = EmptyMap
    /\ creditsUsed = 0
    /\ catIdx = 1
    /\ page = 1
    /\ allNewLinks = << >>
    /\ consecutiveOldPages = 0
    /\ linkIdx = 1
    /\ oldProductCount = 0
    /\ allScrapedProducts = << >>
    /\ hist = [FreshHist({}, {}, "none") EXCEPT !.last = "file:found"]

FilesOnly ==
    UNCHANGED << amazonRun, fullScrape, brandCategories, source, disk, run, pc, exitCode,
                 creditsUsed, catIdx, page, allNewLinks, consecutiveOldPages,
                 linkIdx, oldProductCount, allScrapedProducts >>

\* appendScrapedProduct(product)
AppendProduct ==
    /\ hist.last \in {"file:found", "file:appended"}
    /\ \E product \in FileProducts :
         /\ Len(sink[product.brand]) < MaxFileLen
         /\ sink' = appendScrapedProduct(sink, product, TRUE)
    /\ hist' = [hist EXCEPT !.last = "file:appended"]
    /\ UNCHANGED << persisted, stateFile, seenProducts >>
    /\ FilesOnly

\* The rebuild script runs
Rebuild ==
    /\ hist.last \in {"file:found", "file:appended"}
    /\ persisted' = rebuildSeenProducts(sink)
    /\ stateFile' = writeFileSync(stateFile, TRUE)
    /\ hist' = [hist EXCEPT !.last = "file:rebuilt"]
    /\ UNCHANGED << sink, seenProducts >>
    /\ FilesOnly

\* The scraper starts from the rebuilt ledger
LoadRebuilt ==
    /\ hist.last = "file:rebuilt"
    /\ seenProducts' = loadSeenProducts(stateFile, persisted)
    /\ hist' = [hist EXCEPT !.last = "file:loaded",
                            !.startKeys = Keys(seenProducts')]
    /\ UNCHANGED << sink, persisted, stateFile >>
    /\ FilesOnly

NextFiles ==
    \/ AppendProduct
    \/ Rebuild
    \/ LoadRebuilt

SpecFiles == InitFiles /\ [][NextFiles]_vars

(***************************************************************************)
(* One run whose steps are all taken in the end: every request is          *)
(* answered or times out, every delay elapses, and the code between two    *)
(* awaits runs on.                                                         *)
(***************************************************************************)
NextRun ==
    \/ ListingFetchIssue
    \/ ListingReturn
    \/ PageDelayDone
    \/ ItemStart
    \/ ItemReturn
    \/ ItemDelayDone

SpecLive == Init /\ [][NextRun]_vars /\ WF_vars(NextRun)

(***************************************************************************)
(* The full scraper (GSMArena.js).  fullScrape holds its position ("off",  *)
(* "listingWait": a getBrandPageLinks request in flight, "productWait": a  *)
(* scrapeProduct request in flight, "done", "died": ended by an uncaught   *)
(* rejection), the locals of getAllBrandProducts and scrapeBrand, and the  *)
(* files of "All Brands Scraped Data".  Every url of BRANDS matches the    *)
(* pattern of getAllBrandProducts, so "Invalid brand URL" is never thrown; *)
(* the sleep after a page and after a product is part of the step.         *)
(***************************************************************************)
\* The first two brands of the program's list
BRANDS ==
    << [name |-> "samsung", url |-> UrlSamsung],
       [name |-> "apple",   url |-> UrlApple] >>

\* What a listing page of the site can hold: up to two product links
FullPages ==
    {<< >>} \cup {<<Link(i)>> : i \in Ids}
            \cup {<<Link(p[1]), Link(p[2])>> : p \in Ids \X Ids}

\* getBrandPageLinks(url): the request fails (status other than 200, or no
\* answer), or the links of the page come back; pages past MaxFullPages are
\* empty
getBrandPageLinks(p) ==
    {[failed |-> TRUE, links |-> << >>]}
    \cup {[failed |-> FALSE, links |-> l] :
            l \in (IF p > MaxFullPages THEN {<< >>} ELSE FullPages)}

\* a list returned as collected
uniqueLinksNot(s) == s

RECURSIVE uniqueLinks(_)
\* [...new Set(allLinks)]: the first occurrence of each link, in order
uniqueLinks(s) ==
    IF s = << >> THEN << >>
    ELSE LET rest == uniqueLinks(SubSeq(s, 1, Len(s) - 1))
             x    == s[Len(s)]
         IN  IF \E k \in 1..Len(rest) : rest[k] = x
             THEN rest
             ELSE Append(rest, x)

\* scrapeProduct(url) when the request succeeds
scrapeProduct(link) == [id |-> link.id, name |-> "Phone"]

\* A file of "All Brands Scraped Data" that has not been written; a written
\* one keeps, next to its content, the links scrapeBrand went through, how
\* each attempt ended, and the number of links collected before
\* deduplication.
NoFile ==
    [written |-> FALSE, content |-> << >>, links |-> << >>,
     outcomes |-> << >>, found |-> 0, writes |-> 0]

\* scrapeBrand(BRANDS[b]) is called: the locals are fresh and the request
\* for page 1 is sent
BrandCalled(f, b) ==
    [f EXCEPT !.pc = "listingWait", !.brandIdx = b, !.page = 1,
              !.allLinks = << >>, !.productLinks = << >>, !.linkIdx = 1,
              !.results = << >>, !.outcomes = << >>]

\* The end of scrapeBrand: the results are written to <brand>.json, and the
\* top-level loop calls scrapeBrand for the next brand, if any.
BrandDone(f) ==
    LET g == [f EXCEPT !.files[f.brandIdx] =
                  [written  |-> TRUE,
                   content  |-> f.results,
                   links    |-> f.productLinks,
                   outcomes |-> f.outcomes,
                   found    |-> Len(f.allLinks),
                   writes   |-> @.writes + 1]]
    IN  IF f.brandIdx = Len(BRANDS)
        THEN [BrandCalled(g, f.brandIdx) EXCEPT !.pc = "done"]
        ELSE BrandCalled(g, f.brandIdx + 1)

\* The incremental scraper is not running and has left nothing.
InitFull ==
    /\ brandCategories = BRAND_CATEGORIES
    /\ stateFile = "sound"
    /\ source = VolatileSource
    /\ disk = HealthyDisk
    /\ run = 1
    /\ pc = "exited"
    /\ exitCode = 0
    /\ persisted = EmptyMap
    /\ sink = [b \in Brands |-> << >>]
    /\ seenProducts = EmptyMap
    /\ creditsUsed = 0
    /\ catIdx = 1
    /\ page = 1
    /\ allNewLinks = << >>
    /\ consecutiveOldPages = 0
    /\ linkIdx = 1
    /\ oldProductCount = 0
    /\ allScrapedProducts = << >>
    /\ hist = FreshHist({}, {}, "none")
    /\ amazonRun = NotStarted
    /\ fullScrape =
         BrandCalled([pc |-> "off", brandIdx |-> 1, page |-> 1,
                      allLinks |-> << >>, productLinks |-> << >>,
                      linkIdx |-> 1, results |-> << >>, outcomes |-> << >>,
                      files |-> [b \in 1..Len(BRANDS) |-> NoFile]],
                     1)

FullOnly ==
    UNCHANGED << amazonRun, brandCategories, source, disk, run, pc, exitCode, persisted,
                 stateFile, sink, seenProducts, creditsUsed, catIdx, page,
                 allNewLinks, consecutiveOldPages, linkIdx, oldProductCount,
                 allScrapedProducts, hist >>

\* getAllBrandProducts: the request for a listing page is over.  A failure
\* is caught nowhere, neither in scrapeBrand nor at the top level, and ends
\* the process; an empty page ends the pagination, and scrapeBrand goes on
\* with the deduplicated links; any other page is added and the next one
\* requested.
FullListingReturn ==
    /\ fullScrape.pc = "listingWait"
    /\ \E resp \in getBrandPageLinks(fullScrape.page) :
         fullScrape' =
            IF resp.failed
            THEN [fullScrape EXCEPT !.pc = "died"]
            ELSE IF resp.links = << >>
                 THEN LET links == uniqueLinks(fullScrape.allLinks)
                          f == [fullScrape EXCEPT !.productLinks = links]
                      IN  IF links = << >>
                          THEN BrandDone(f)
                          ELSE [f EXCEPT !.pc = "productWait"]
                 ELSE [fullScrape EXCEPT !.allLinks = @ \o resp.links,
                                         !.page = @ + 1]
    /\ FullOnly

\* scrapeBrand: the request of scrapeProduct for productLinks[linkIdx] is
\* over; a failure is caught and logged, a product is pushed to results; after
\* the last link the file is written.
FullProductReturn ==
    /\ fullScrape.pc = "productWait"
    /\ \E ok \in BOOLEAN :
         LET link == fullScrape.productLinks[fullScrape.linkIdx]
             f == [fullScrape EXCEPT
                     !.results = IF ok THEN Append(@, scrapeProduct(link))
                                       ELSE @,
                     !.outcomes = Append(@, ok)]
         IN  fullScrape' =
                IF f.linkIdx = Len(f.productLinks)
                THEN BrandDone(f)
                ELSE [f EXCEPT !.linkIdx = @ + 1]
    /\ FullOnly

NextFull ==
    \/ FullListingReturn
    \/ FullProductReturn

SpecFull == InitFull /\ [][NextFull]_vars

(***************************************************************************)
(* The image scraper (amznscrapper.js).  amazonRun holds the products      *)
(* array, the index i of the for loop of main (counted from 1), the        *)
(* position ("fetchWait": getAmazonProductHtml in flight, "pause": the     *)
(* rate-limiting timer runs, "done"), the data handed to saveResult call   *)
(* by call, how each attempt went, and the number of pauses begun.  The    *)
(* output directory can be written, so saveResult does not throw.          *)
(***************************************************************************)
\* Entries of PRODUCT_URLS between the commas: two urls, one of them padded
\* with blanks, a blank entry and an empty one
EntryA == <<"a">>
EntryB == <<" ", "b", " ">>
EntryBlank == <<" ">>
EntryEmpty == << >>
RawEntries == {EntryA, EntryB, EntryBlank, EntryEmpty}

RECURSIVE trim(_)
\* String.prototype.trim for the blanks the entries hold
trim(s) ==
    IF s = << >> THEN s
    ELSE IF s[1] = " " THEN trim(SubSeq(s, 2, Len(s)))
    ELSE IF s[Len(s)] = " " THEN trim(SubSeq(s, 1, Len(s) - 1))
    ELSE s

\* PRODUCT_URLS.split(',').map(url => url.trim()).filter(url => url)
productUrls(entries) ==
    SelectSeq([k \in 1..Len(entries) |-> trim(entries[k])],
              LAMBDA url : url # << >>)

\* productUrls.map(url => ({ url }))
products(entries) ==
    LET urls == productUrls(entries)
    IN  [k \in 1..Len(urls) |-> [url |-> urls[k]]]

\* The values of PRODUCT_URLS, split at the commas
RawLists ==
    UNION {[1..n -> RawEntries] : n \in 0..MaxProducts}

\* How the try block of main can go: getAmazonProductHtml rejects, the
\* extraction throws (the body is not a string), or the result is complete
Attempts == {"ok", "fetchError", "extractError"}

\* The data main hands to saveResult
resultOf(attempt, product) ==
    IF attempt = "ok"
    THEN [status |-> "SUCCESS", url |-> product.url]
    ELSE [status |-> "ERROR", url |-> product.url]

\* a pause after every product
pauseDueAlways(i, n) == TRUE

\* Rate limiting: i < products.length - 1, for i counted from 0
pauseDue(i, n) == i < n

\* for (let i = 0; i < products.length; i++): the test before the body
LoopAt(a, i) ==
    IF i <= Len(a.products)
    THEN [a EXCEPT !.i = i, !.pc = "fetchWait"]
    ELSE [a EXCEPT !.i = i, !.pc = "done"]

InitAmazon ==
    /\ brandCategories = BRAND_CATEGORIES
    /\ stateFile = "sound"
    /\ fullScrape = NotStarted
    /\ source = VolatileSource
    /\ disk = HealthyDisk
    /\ run = 1
    /\ pc = "exited"
    /\ exitCode = 0
    /\ persisted = EmptyMap
    /\ sink = [b \in Brands |-> << >>]
    /\ seenProducts = EmptyMap
    /\ creditsUsed = 0
    /\ catIdx = 1
    /\ page = 1
    /\ allNewLinks = << >>
    /\ consecutiveOldPages = 0
    /\ linkIdx = 1
    /\ oldProductCount = 0
    /\ allScrapedProducts = << >>
    /\ hist = FreshHist({}, {}, "none")
    /\ \E entries \in RawLists :
         amazonRun = LoopAt([pc |-> "off", products |-> products(entries),
                             i |-> 1, saved |-> << >>, attempts |-> << >>,
                             pauses |-> 0],
                            1)

AmazonOnly ==
    UNCHANGED << fullScrape, brandCategories, source, disk, run, pc, exitCode,
                 persisted, stateFile, sink, seenProducts, creditsUsed, catIdx,
                 page, allNewLinks, consecutiveOldPages, linkIdx,
                 oldProductCount, allScrapedProducts, hist >>

\* main: the await of getAmazonProductHtml is over; the try block saves a
\* SUCCESS result, or the catch saves an ERROR result; then the pause is
\* begun if one is due, else the loop goes on
AmazonFetchReturn ==
    /\ amazonRun.pc = "fetchWait"
    /\ \E attempt \in Attempts :
         LET product == amazonRun.products[amazonRun.i]
             a == [amazonRun EXCEPT
                     !.saved = Append(@, resultOf(attempt, product)),
                     !.attempts = Append(@, attempt)]
         IN  amazonRun' =
                IF pauseDue(a.i, Len(a.products))
                THEN [a EXCEPT !.pc = "pause", !.pauses = @ + 1]
                ELSE LoopAt(a, a.i + 1)
    /\ AmazonOnly

\* main: the timer of the pause fires
AmazonPauseDone ==
    /\ amazonRun.pc = "pause"
    /\ amazonRun' = LoopAt(amazonRun, amazonRun.i + 1)
    /\ AmazonOnly

NextAmazon ==
    \/ AmazonFetchReturn
    \/ AmazonPauseDone

SpecAmazon == InitAmazon /\ [][NextAmazon]_vars

(***************************************************************************)
(* Properties                                                              *)
(***************************************************************************)
SinkIds == UNION {{sink[b][k].id : k \in 1..Len(sink[b])} : b \in Brands}
AcceptedIds == {i \in Ids : hist.acceptCount[i] > 0}
ExitedByItself == pc = "exited" /\ exitCode \in {0, 1}
BetweenCategories == pc = "page" /\ page = 1 /\ catIdx > 1

\* C1: within one run every product id is accepted at most once and handed
\* to appendScrapedProduct at most once, and an id that was in the ledger
\* loaded at start is never accepted, whatever the listing pages return.
C1_AcceptedAtMostOnce ==
    \A i \in Ids :
        /\ hist.acceptCount[i] <= 1
        /\ hist.appendCalls[i] <= 1
        /\ (i \in hist.startKeys => hist.acceptCount[i] = 0)

\* C1 witness: in a second run that loaded a non-empty ledger, a category
\* listed the same id twice; its first link was accepted, its second skipped.
C1_Witness ==
    /\ run = 2
    /\ hist.startKeys # {}
    /\ pc = "itemDelay"
    /\ linkIdx = 2
    /\ allNewLinks[1].id = allNewLinks[2].id
    /\ hist.acceptCount[allNewLinks[1].id] = 1
    /\ oldProductCount = 1

\* C2 (as claimed): whenever the process has exited by itself or is between
\* two categories, the ids of the records in the sink files are exactly the
\* keys of the persisted ledger (here even with every file writable).
C2_SinkIffLedger ==
    (disk = HealthyDisk /\ (ExitedByItself \/ BetweenCategories))
        => SinkIds = Keys(persisted)

\* C3 (as claimed): no item handed to the sink by an earlier run, however
\* that run ended by itself, has its item page requested or is appended again.
C3_NoRefetchAcrossRuns ==
    (disk = HealthyDisk /\ hist.prevEnd \in {"clean", "block", "budget"})
        => /\ hist.itemFetched \cap hist.handedPrev = {}
           /\ \A i \in hist.handedPrev : hist.appendCalls[i] = 0

C5_CreditAccounting ==
    /\ [](/\ hist.transportCalls <= creditsUsed
          /\ hist.transportCalls <= MAX_CREDITS)
    /\ [][(run' = run /\ exitCode' # 137)
            => /\ creditsUsed' >= creditsUsed
               /\ (hist'.transportCalls # hist.transportCalls
                     => /\ hist'.transportCalls = hist.transportCalls + 1
                        /\ creditsUsed' = creditsUsed + 1)]_vars

\* C5 witness: a run used every transport call the ceiling allows and was
\* stopped by the charge after them.
C5_Witness ==
    /\ hist.endKind = "budget"
    /\ hist.transportCalls = MAX_CREDITS - 1
    /\ creditsUsed = MAX_CREDITS

\* C6 (as claimed): a run ended by a Block or by the budget ceiling exits
\* with status 1, and status 0 is that of a run that went through every
\* category.
C6_ExitStatus ==
    pc = "exited"
        => /\ (hist.endKind \in {"block", "budget"} => exitCode = 1)
           /\ (exitCode = 0 => hist.endKind = "clean")

\* C7 (as claimed): when the budget ceiling ends the run, the persisted ledger
\* holds every id accepted during the run (the ledger file being writable).
C7_BudgetExitFlushes ==
    (pc = "exited" /\ hist.endKind = "budget" /\ disk.ledger)
        => AcceptedIds \subseteq Keys(persisted)

\* C8: once a response body carrying an indicator phrase (in whatever letter
\* case) has been served, the run is over: the Block passed every handler,
\* nothing further is processed, the exit status is 1, and the ledger file, if
\* it can be written, holds exactly the keys loaded at start plus the ids
\* accepted before the blocking fetch.
C8_BlockStopsAndFlushes ==
    hist.blockTextServed
        => /\ pc = "exited"
           /\ exitCode = 1
           /\ hist.endKind = "block"
           /\ hist.blockSeen
           /\ (disk.ledger
                 => Keys(persisted) = hist.startKeys \cup AcceptedIds)

\* C8 witness: a Block ended a run in its first category after an item of that
\* category was accepted, and that item is in the persisted ledger.
C8_Witness ==
    /\ hist.blockTextServed
    /\ pc = "exited"
    /\ catIdx = 1
    /\ AcceptedIds # {}
    /\ Keys(persisted) = AcceptedIds

\* C9: once a Block has been detected or the ceiling has been found reached,
\* the process charges no credit and calls the transport no more; the charge
\* that finds the ceiling reached calls no transport.
C9_NoFetchAfterStop ==
    [][/\ ((hist.blockSeen \/ hist.endKind = "budget") /\ run' = run)
            => /\ creditsUsed' = creditsUsed
               /\ hist'.transportCalls = hist.transportCalls
       /\ (hist.endKind # "budget" /\ hist'.endKind = "budget")
            => hist'.transportCalls = hist.transportCalls]_vars

\* C9 witness: a Block was detected on a later fetch of the run.
C9_Witness ==
    /\ hist.blockSeen
    /\ pc = "exited"
    /\ creditsUsed >= 2

C12_ListingErrorEndsPaginationOnly ==
    [][(pc = "pageWait" /\ hist'.last = "page:fetchError")
         => /\ hist'.endKind \in {"running", "clean"}
            /\ exitCode' \in {-1, 0}
            /\ IF allNewLinks # << >>
               THEN /\ pc' = "item"
                    /\ catIdx' = catIdx
                    /\ allNewLinks' = allNewLinks
                    /\ linkIdx' = 1
               ELSE /\ catIdx' = catIdx + 1
                    /\ IF catIdx < Len(brandCategories)
                       THEN pc' = "page" /\ page' = 1
                       ELSE pc' = "exited" /\ hist'.endKind = "clean"]_vars

\* C12 witness: the request for a later page failed and the item loop starts
\* with the references of the pages before it.
C12_Witness ==
    /\ hist.last = "page:fetchError"
    /\ pc = "item"
    /\ page >= 2
    /\ allNewLinks # << >>
    /\ catIdx = 1

\* C13: processing a reference whose request fails without a Block, whose
\* page lacks a mandatory field, or whose launch year is below the cutoff
\* changes neither the ledger in memory nor the sink; the request step charges
\* one credit and the return step none; the ledger file is written at most by
\* the flush that ends the category, and never receives the reference's id.
C13_RejectedItemLeavesNoTrace ==
    [][/\ (pc = "item" /\ pc' = "itemWait")
            => /\ seenProducts' = seenProducts
               /\ sink' = sink
               /\ persisted' = persisted
               /\ creditsUsed' = creditsUsed + 1
       /\ (pc = "itemWait"
             /\ hist'.last \in {"item:fetchError", "item:extractionFailure",
                                "item:outOfScope"})
            => /\ seenProducts' = seenProducts
               /\ sink' = sink
               /\ creditsUsed' = creditsUsed
               /\ hist'.acceptCount = hist.acceptCount
               /\ \/ persisted' = persisted
                  \/ catIdx' = catIdx + 1 /\ persisted' = seenProducts
               /\ allNewLinks[linkIdx].id
                     \notin (Keys(seenProducts') \cup Keys(persisted'))]_vars

\* C13 witness: a reference was rejected for its launch year after another of
\* the same category had been accepted.
C13_Witness ==
    /\ hist.last = "item:outOfScope"
    /\ pc = "itemDelay"
    /\ AcceptedIds # {}
    /\ allNewLinks[linkIdx].id \notin AcceptedIds
    /\ Keys(seenProducts) = AcceptedIds

\* C14 (as claimed): a reference that ends in a fetch error or an extraction
\* failure is skipped without counting as an out-of-scope skip: the counter
\* keeps its value and the item loop goes on to the next reference.
C14_OnlyOutOfScopeCounts ==
    [][(pc = "itemWait"
          /\ hist'.last \in {"item:fetchError", "item:extractionFailure"})
         => /\ pc' = "itemDelay"
            /\ oldProductCount' = oldProductCount]_vars

\* C15: all through a pagination, consecutiveOldPages is the number of pages
\* fetched since the last page that yielded an unseen reference (each of them
\* non-empty and without unseen reference), it is 0 right after such a page,
\* and it stays below 3 while the pagination goes on; so the page requested is
\* at most three past the last page with an unseen reference, and at most
\* page 5 when unseen references appear on pages 1 and 2 only.
C15_OldPagesCounter ==
    pc \in {"page", "pageWait", "pageDelay"}
        => /\ consecutiveOldPages = (page - 1) - hist.lastNewPage
           /\ consecutiveOldPages < OLD_PAGES_LIMIT
           /\ page <= hist.lastNewPage + OLD_PAGES_LIMIT
           /\ (hist.lastNewPage <= 2 => page <= 5)

\* C15 witness: page 1 yielded unseen references, pages 2, 3 and 4 none, and
\* the pagination stopped on page 4.
C15_Witness ==
    /\ hist.last = "page:noUnseen"
    /\ pc = "item"
    /\ page = 4
    /\ allNewLinks # << >>

\* C16: the references getBrandProductLinks accumulates and returns have ids
\* that are no keys of the ledger, and a page without any reference ends the
\* pagination of its category: what follows is the item loop, the next
\* category or the end of the run.
C16_OnlyUnseenReturned ==
    /\ (pc \in {"page", "pageWait", "pageDelay"} \/ (pc = "item" /\ linkIdx = 1))
          => \A k \in 1..Len(allNewLinks) :
                allNewLinks[k].id \notin Keys(seenProducts)
    /\ hist.last = "page:empty"
          => \/ pc = "item" /\ linkIdx = 1
             \/ pc = "page" /\ page = 1 /\ catIdx > 1
             \/ pc = "exited" /\ hist.endKind = "clean"

\* C16 witness: in a run that loaded a non-empty ledger, page 2 of a category
\* was empty and the item loop starts with the unseen references of page 1.
C16_Witness ==
    /\ run = 2
    /\ hist.startKeys # {}
    /\ hist.last = "page:empty"
    /\ pc = "item"
    /\ page = 2
    /\ allNewLinks # << >>

\* C17: scrapeProduct called for a reference whose id is in the ledger
\* charges no credit, calls no transport and changes neither the ledger in
\* memory nor the sink; the ledger file is written at most by the flush that
\* ends the category.
C17_SeenReferenceCostsNothing ==
    [][(pc = "item" /\ allNewLinks[linkIdx].id \in Keys(seenProducts)
          /\ exitCode' # 137)
         => /\ creditsUsed' = creditsUsed
            /\ hist'.transportCalls = hist.transportCalls
            /\ hist'.itemFetched = hist.itemFetched
            /\ seenProducts' = seenProducts
            /\ sink' = sink
            /\ \/ persisted' = persisted
               \/ catIdx' = catIdx + 1 /\ persisted' = seenProducts]_vars

\* C17 witness: the second reference of a category had the id of the first,
\* which had just been accepted, and was skipped: besides the `page` listing
\* requests of the category, the run has made one request for the two of them.
C17_Witness ==
    /\ hist.last = "skip:seen"
    /\ pc = "itemDelay"
    /\ linkIdx = 2
    /\ catIdx = 1
    /\ hist.itemFetched = {allNewLinks[1].id}
    /\ hist.transportCalls = page + 1
    /\ creditsUsed = hist.transportCalls

\* C18 (as claimed): every transport call of a run but the first comes after
\* a randomDelay within [MIN_DELAY, MAX_DELAY] that ran since the call before.
C18_DelayBetweenAnyTwoRequests ==
    [][(hist'.transportCalls = hist.transportCalls + 1
          /\ hist.transportCalls > 0)
         => hist.delayed]_vars

\* C19: inside the pagination loop of a category every listing request after
\* the first, and inside its item loop every item request after the first
\* reference, comes after a randomDelay within [MIN_DELAY, MAX_DELAY] that ran
\* since the transport call before.
C19_DelayInsideLoops ==
    [][(hist'.transportCalls = hist.transportCalls + 1
          /\ \/ pc = "page" /\ page > 1
             \/ pc = "item" /\ linkIdx > 1)
         => hist.delayed]_vars

\* C19 witness: the item request of a category's second reference is in
\* flight after that of its first, in a category paged beyond page 1.
C19_Witness ==
    /\ pc = "itemWait"
    /\ linkIdx = 2
    /\ catIdx = 1
    /\ page >= 2
    /\ hist.itemFetched = {allNewLinks[1].id, allNewLinks[2].id}
    /\ allNewLinks[1].id # allNewLinks[2].id

\* C20: every record in the sink files has a launch year of at least
\* MIN_LAUNCH_YEAR, and every item accepted into the ledger during the run had
\* such a year announced on its page; a page without a year (0) or with an
\* earlier one leaves nothing behind.
C20_OnlyRecentStored ==
    /\ \A b \in Brands : \A k \in 1..Len(sink[b]) :
          sink[b][k].launchYear >= MIN_LAUNCH_YEAR
    /\ \A y \in hist.acceptedYears : y >= MIN_LAUNCH_YEAR
    /\ (AcceptedIds = {} <=> hist.acceptedYears = {})
    /\ (source.stable /\ run = 1)
          => \A i \in Keys(seenProducts) \cup SinkIds :
                source.products[i].announced >= MIN_LAUNCH_YEAR

\* C20 witness: of the two items of a stable source the recent one is in the
\* sink and in the ledger, and the other, fetched as well, is in neither.
C20_Witness ==
    /\ source.stable
    /\ run = 1
    /\ hist.itemFetched = Ids
    /\ Cardinality(SinkIds) = 1
    /\ SinkIds = Keys(seenProducts)
    /\ \E i \in Ids : /\ i \notin SinkIds
                      /\ source.products[i].announced < MIN_LAUNCH_YEAR

\* C21: during a run the ledger only grows: an id that is a key of
\* seenProducts stays a key with the entry it had, the keys loaded at the
\* start stay keys while the process lives, and every ledger the run writes to
\* seen_products.json holds each entry loaded at the start.
C21_LedgerOnlyGrows ==
    /\ [](pc # "exited" => hist.startKeys \subseteq Keys(seenProducts))
    /\ [][ (run' = run /\ exitCode' # 137) =>
             /\ \A k \in Keys(seenProducts) :
                   /\ k \in Keys(seenProducts')
                   /\ seenProducts'[k] = seenProducts[k]
             /\ (persisted' # persisted =>
                   \A k \in hist.startKeys :
                       /\ k \in Keys(persisted')
                       /\ persisted'[k] = seenProducts[k]) ]_vars
C21_Witness ==
    /\ run = 2
    /\ pc = "exited"
    /\ hist.startKeys # {}
    /\ AcceptedIds # {}
    /\ Keys(persisted) = hist.startKeys \cup AcceptedIds
    /\ \A k \in hist.startKeys : persisted[k].scrapedAt = 1

\* C22: the flush of the ledger is all-or-nothing: the file a run loads at its
\* start is never a partly written one, whatever interrupted the run before.
C22_FlushAllOrNothing ==
    [][run' # run => stateFile # "torn"]_vars

\* C23: loadSeenProducts never makes the run fail: the process that starts
\* goes on to its first listing request, with the mapping of a sound file and
\* with the empty mapping when the file is absent, unreadable or not JSON.
C23_LoadNeverFails ==
    /\ [](run = 1 /\ pc # "exited" => hist.startKeys = {})
    /\ [][run' # run =>
            /\ pc' = "page"
            /\ exitCode' = -1
            /\ catIdx' = 1
            /\ hist'.startKeys = Keys(seenProducts')
            /\ seenProducts' = IF stateFile = "sound" THEN persisted
                                                      ELSE EmptyMap]_vars
C23_Witness ==
    /\ run = 2
    /\ stateFile \in {"torn", "unreadable"}
    /\ hist.startKeys = {}
    /\ hist.itemFetched \cap Keys(persisted) # {}

\* The item pages of the scenario that pass extraction and the year test, and
\* those that fail extraction.
ScenarioGood ==
    {i \in Ids : /\ source.products[i].h1 # ""
                 /\ source.products[i].announced >= MIN_LAUNCH_YEAR}
ScenarioFailed ==
    {i \in Ids : \/ source.products[i].h1 = ""
                 \/ source.products[i].announced = 0}
ScenarioDone == pc = "exited" /\ run = 1 /\ hist.endKind = "clean"

\* What the scenario leaves behind: page 1 and page 2 were requested and then
\* each reference once, in the order of the page; the ledger, in memory and on
\* file, and the sink hold exactly the items that passed, and the report
\* counts them.
ScenarioLedgerSinkAndCount ==
    ScenarioDone =>
        LET good == SelectSeq(ScenarioPage, LAMBDA l : l.id \in ScenarioGood)
            file == sink[brandCategories[1].name]
            summary == finalSummary(allScrapedProducts, creditsUsed, seenProducts)
        IN  /\ hist.pagedBeyondFirst
            /\ hist.transportCalls = 2 + Len(ScenarioPage)
            /\ creditsUsed = hist.transportCalls
            /\ hist.itemFetched = {l.id : l \in {ScenarioPage[k] : k \in 1..Len(ScenarioPage)}}
            /\ allScrapedProducts = [k \in 1..Len(good) |-> good[k].id]
            /\ Keys(seenProducts) = ScenarioGood
            /\ Keys(persisted) = ScenarioGood
            /\ [k \in 1..Len(file) |-> file[k].id] = allScrapedProducts
            /\ summary.newProducts = Cardinality(ScenarioGood)
            /\ summary.totalProducts = Cardinality(ScenarioGood)

\* The closing report of the scenario tells how many items failed.
ScenarioErrorsReported ==
    ScenarioDone =>
        LET summary == finalSummary(allScrapedProducts, creditsUsed, seenProducts)
        IN  /\ "errors" \in DOMAIN summary
            /\ summary["errors"] = Cardinality(ScenarioFailed)

\* C24: a run that starts with an empty ledger over one category whose page 1
\* yields unseen references and whose page 2 is empty stops paginating after
\* page 2, attempts the references in order, ends with exactly the items that
\* passed in the ledger and in the sink, and reports in its summary the number
\* of successes and the number of errors.
C24_ScenarioOutcome ==
    ScenarioLedgerSinkAndCount /\ ScenarioErrorsReported

PagePositions == {"page", "pageWait", "pageDelay"}
ItemPositions == {"item", "itemWait", "itemDelay"}

\* C25: the process is strictly sequential: at most one request is in flight
\* at any moment and a request is sent only when none is; the categories are
\* taken one after the other, and once the item loop of a category has begun,
\* the next listing request belongs to the category after it.
C25_StrictlySequential ==
    /\ [](/\ hist.inFlight \in {0, 1}
          /\ (hist.inFlight = 1 <=> pc \in {"pageWait", "itemWait"}))
    /\ [][ (run' = run /\ exitCode' # 137) =>
             /\ (hist'.transportCalls # hist.transportCalls =>
                    /\ hist.inFlight = 0
                    /\ hist'.transportCalls = hist.transportCalls + 1)
             /\ catIdx' \in {catIdx, catIdx + 1}
             /\ (pc \in ItemPositions /\ pc' \in PagePositions =>
                    catIdx' = catIdx + 1 /\ page' = 1)
             /\ (pc \in PagePositions /\ pc' \in ItemPositions =>
                    catIdx' = catIdx /\ linkIdx' = 1) ]_vars
C25_Witness ==
    /\ pc = "pageWait"
    /\ catIdx = 2
    /\ page = 1
    /\ hist.inFlight = 1
    /\ hist.itemFetched # {}

LedgerEntryFields == {"id", "name", "category", "launchYear", "scrapedAt"}

\* C26: every entry of the ledger carries the fields id, name, category,
\* launchYear and scrapedAt, and its id is the key it is stored under.
C26_LedgerEntryFields ==
    \A k \in Keys(seenProducts) :
        /\ LedgerEntryFields \subseteq DOMAIN seenProducts[k]
        /\ seenProducts[k].id = k

\* how many times x occurs in s
Count(s, x) == Cardinality({k \in 1..Len(s) : s[k] = x})
Range(s) == {s[k] : k \in 1..Len(s)}

\* C27: after every successful call of appendScrapedProduct the brand file
\* holds every record it held before, as many times, plus the new one, and
\* its records are in non-increasing order of launchYear.
C27_AppendKeepsAllSorted ==
    [][ sink' # sink =>
          \E b \in Brands :
             /\ \A c \in Brands \ {b} : sink'[c] = sink[c]
             /\ Len(sink'[b]) = Len(sink[b]) + 1
             /\ \E new \in Range(sink'[b]) :
                   \A x \in Range(sink'[b]) \cup Range(sink[b]) :
                       Count(sink'[b], x) =
                           Count(sink[b], x) + (IF x = new THEN 1 ELSE 0)
             /\ \A i, j \in 1..Len(sink'[b]) :
                   i < j => sink'[b][i].launchYear >= sink'[b][j].launchYear
      ]_vars
C27_Witness ==
    \E b \in Brands :
        /\ hist.last = "file:appended"
        /\ Len(sink[b]) = MaxFileLen
        /\ sink[b][1].launchYear > sink[b][MaxFileLen].launchYear
        /\ sink[b][1].id = sink[b][MaxFileLen].id

\* C30: the ledger the rebuild script writes has as its keys exactly the ids
\* of the records of the brand files, each entry under its own id, so that a
\* scraper started from it takes as seen exactly the references to products
\* that are in the files.
C30_RebuildMatchesFiles ==
    LET fileIds == SinkIds \ {NoId}
    IN  /\ hist.last = "file:rebuilt" =>
              /\ Keys(persisted) = fileIds
              /\ \A k \in Keys(persisted) : persisted[k].id = k
        /\ hist.last = "file:loaded" =>
              /\ Keys(seenProducts) = fileIds
              /\ \A links \in ListingPages :
                    filterNewLinks(links, seenProducts) =
                        SelectSeq(links, LAMBDA l : l.id \notin fileIds)
              /\ \A i \in Ids : alreadySeen(seenProducts, i) <=> i \in fileIds
C30_Witness ==
    /\ hist.last = "file:loaded"
    /\ \A b \in Brands : Len(sink[b]) > 1
    /\ Cardinality(Keys(seenProducts)) > 1
    /\ NoId \in SinkIds

\* C28: every run ends, whatever the source serves: each listing request and
\* each item request is charged to creditsUsed, which never passes
\* MAX_CREDITS, so that a pagination that always finds unseen references ends
\* with the process at the ceiling.
C28_RunTerminates ==
    /\ <>(pc = "exited")
    /\ [](creditsUsed <= MAX_CREDITS)
    /\ [](hist.transportCalls < MAX_CREDITS)
C28_Witness ==
    /\ pc = "exited"
    /\ hist.endKind = "budget"
    /\ creditsUsed = MAX_CREDITS
    /\ catIdx = 1
    /\ hist.itemFetched = {}
    /\ hist.transportCalls = MAX_CREDITS - 1

NoDuplicate(s) == \A i, j \in 1..Len(s) : i # j => s[i] # s[j]

\* the products of the links whose attempt succeeded, in the order of the links
Scraped(links, outcomes) ==
    LET ix == SelectSeq([i \in 1..Len(links) |-> i], LAMBDA i : outcomes[i])
    IN  [k \in 1..Len(ix) |-> scrapeProduct(links[ix[k]])]

\* C29: in the full scraper getAllBrandProducts returns every collected link
\* once; a product that fails does not stop the products after it; the file
\* of a brand is written once, after every link was attempted, and holds the
\* products scraped with success in the order of the links; a listing request
\* that fails ends the run, with no file for the brand in progress nor for
\* any brand after it.
C29_FullScraperOutput ==
    /\ [](LET f == fullScrape
          IN  /\ NoDuplicate(f.productLinks)
              /\ (f.pc = "productWait" => Range(f.productLinks) = Range(f.allLinks))
              /\ \A b \in 1..Len(BRANDS) :
                    LET file == f.files[b]
                    IN  IF file.written
                        THEN /\ file.writes = 1
                             /\ b < f.brandIdx \/ f.pc = "done"
                             /\ Len(file.outcomes) = Len(file.links)
                             /\ file.content = Scraped(file.links, file.outcomes)
                        ELSE file.writes = 0 /\ f.pc # "done"
              /\ (f.pc = "died" =>
                    \A b \in f.brandIdx..Len(BRANDS) : ~f.files[b].written))
    /\ [][ /\ (fullScrape.pc = "productWait" => fullScrape'.pc # "died")
           /\ (fullScrape.pc = "died" => fullScrape' = fullScrape)
           /\ \A b \in 1..Len(BRANDS) :
                 fullScrape.files[b].written =>
                     fullScrape'.files[b] = fullScrape.files[b] ]_vars
C29_Witness ==
    /\ fullScrape.pc = "died"
    /\ fullScrape.brandIdx = 2
    /\ fullScrape.files[1].written
    /\ fullScrape.files[1].found > Len(fullScrape.files[1].links)
    /\ fullScrape.files[1].outcomes = <<FALSE, TRUE>>
    /\ Len(fullScrape.files[1].content) = 1

\* C31: main of the image scraper takes the configured products once each, in
\* order; an attempt that fails in the fetch or in the extraction leaves an
\* ERROR result for its product and the products after it are still taken; a
\* pause is begun after every product but the last.
C31_EveryProductOnceInOrder ==
    /\ [](LET a == amazonRun
              n == Len(a.products)
              k == Len(a.saved)
          IN  /\ k <= n
              /\ Len(a.attempts) = k
              /\ \A j \in 1..k :
                    /\ a.saved[j].url = a.products[j].url
                    /\ a.saved[j].status =
                          (IF a.attempts[j] = "ok" THEN "SUCCESS" ELSE "ERROR")
              /\ (a.pc = "fetchWait" => a.i = k + 1 /\ a.pauses = k)
              /\ (a.pc = "pause" => a.i = k /\ k < n /\ a.pauses = k)
              /\ (a.pc = "done" =>
                    k = n /\ a.pauses = (IF n = 0 THEN 0 ELSE n - 1)))
    /\ [][ /\ (amazonRun.pc = "fetchWait" /\ amazonRun.i < Len(amazonRun.products)
                  => amazonRun'.pc = "pause")
           /\ (amazonRun.pc = "pause" => amazonRun'.pc = "fetchWait")
           /\ amazonRun'.products = amazonRun.products ]_vars
C31_Witness ==
    /\ amazonRun.pc = "done"
    /\ Len(amazonRun.products) = MaxProducts
    /\ amazonRun.attempts[1] = "fetchError"
    /\ amazonRun.attempts[2] = "extractError"
    /\ amazonRun.saved[MaxProducts].status = "SUCCESS"
    /\ amazonRun.pauses = MaxProducts - 1
====
